---- MODULE Spec2Model ----
(***************************************************************************)
(* CefFrameHostImpl (libcef/browser/frame_host_impl.cc): the browser-side  *)
(* handle of one frame.  The model follows one handle from construction:   *)
(* its lock-protected snapshot fields, the bound RenderFrameHost, the mojo *)
(* remote to the renderer-side CefFrameImpl, the attach flag and the queue *)
(* of actions held back until the renderer reports FrameAttached().        *)
(*                                                                         *)
(* The surroundings are modelled by what the handle does to them: the      *)
(* tasks posted to the UI thread (ui_tasks), the calls that reached the    *)
(* renderer-side frame (peer) and the calls made on the owning browser     *)
(* (browser_calls).                                                        *)
(***************************************************************************)
EXTENDS Integers, Sequences, FiniteSets

VARIABLES
    is_main_frame,      \* is_main_frame_ (const member)
    frame_id,           \* frame_id_
    parent_frame_id,    \* parent_frame_id_
    url,                \* url_
    name,               \* name_
    is_focused,         \* is_focused_
    browser_info,       \* browser_info_ # nullptr
    browser_live,       \* browser_info_->browser() # nullptr
    render_frame_host,  \* render_frame_host_: 0 is nullptr, else a host
    render_frame,       \* render_frame_: 0 is unbound, else the host it was resolved against
    is_attached,        \* is_attached_
    queued_actions,     \* queued_actions_
    ui_tasks,           \* SendToRenderFrame calls re-posted to the UI thread, not yet run
    peer,               \* actions run against the renderer-side frame, in order
    browser_calls,      \* calls made on the owning CefBrowserHostBase, in order
    aborted,            \* a CHECK has failed: the process is gone
    next_id,            \* number of actions handed to SendToRenderFrame so far
    attach_calls,       \* number of FrameAttached() calls so far
    last_op             \* the operation invoked last, with its string argument or outcome

handle == <<is_main_frame, frame_id, parent_frame_id, url, name, is_focused,
            browser_info, render_frame_host, render_frame, is_attached,
            queued_actions>>

vars == <<is_main_frame, frame_id, parent_frame_id, url, name, is_focused,
          browser_info, browser_live, render_frame_host, render_frame,
          is_attached, queued_actions, ui_tasks, peer, browser_calls,
          aborted, next_id, attach_calls, last_op>>

-----------------------------------------------------------------------------
(* Bounds of the model. *)

\* Actions handed to SendToRenderFrame in one run of SpecDispatch.
MaxActions == 3

\* Actions handed to SendToRenderFrame in one run of the other specifications.
MaxCalls == 1

\* Calls made on the owning browser in one run.
MaxBrowserCalls == 1

\* Actions handed to SendToRenderFrame in one run of SpecLive.
MaxLiveActions == 2

\* FrameAttached() notifications in one run.
MaxAttachCalls == 2

\* Largest routing id a host of the model has; the packing radix follows it.
MaxRoutingId == 2

-----------------------------------------------------------------------------
(* Frame id sentinels. *)

kMainFrameId == -1

kFocusedFrameId == -2

kUnspecifiedFrameId == -3

kInvalidFrameId == -4

-----------------------------------------------------------------------------
(* The RenderFrameHosts a handle can meet.  1 and 4 are main frames (no    *)
(* parent), 2 is a child of 1 in the same renderer process, 3 is a child   *)
(* of 1 in a process of its own.                                           *)

Hosts == {1, 2, 3, 4}

\* host->GetParent(): 0 is nullptr
HostParent(h) == CASE h = 1 -> 0 [] h = 2 -> 1 [] h = 3 -> 1 [] OTHER -> 0

\* host->GetProcess()->GetID()
HostProcess(h) == CASE h = 1 -> 1 [] h = 2 -> 1 [] h = 3 -> 2 [] OTHER -> 2

\* host->GetRoutingID()
HostRouting(h) == CASE h = 1 -> 1 [] h = 2 -> 2 [] h = 3 -> 1 [] OTHER -> 2

\* host->GetLastCommittedURL().spec()
HostURL(h) == CASE h = 1 -> "https://example.com/" [] h = 2 -> "https://example.com/a"
                [] h = 3 -> "https://other.test/" [] OTHER -> "https://other.test/main"

\* host->GetFrameName(): the name property of the frame element, often empty
HostFrameName(h) == CASE h = 2 -> "child" [] OTHER -> ""

\* FrameTreeNode::unique_name() of the host's node
HostUniqueName(h) == CASE h = 1 -> "" [] h = 2 -> "child" [] h = 3 -> "<!--frame1-->"
                       [] OTHER -> ""

\* frame_util::MakeFrameId: the two ids packed into one integer, process id high.
MakeFrameIdOf(render_process_id, render_routing_id) ==
    render_process_id * (MaxRoutingId + 1) + render_routing_id

MakeFrameId(host) == MakeFrameIdOf(HostProcess(host), HostRouting(host))

-----------------------------------------------------------------------------
(* URLs.  A URL string parses to a GURL: its spec, whether it is valid and *)
(* whether it has a scheme.                                                *)

UrlInputs == {"https://example.com", "example.com", "http://[bad"}

\* url_util::MakeGURL(url, /*fixup=*/false): parse and canonicalise, repair nothing.
MakeGURL(u) ==
    CASE u = "https://example.com" ->
             [spec |-> "https://example.com/", valid |-> TRUE, scheme |-> TRUE]
      [] u = "http://example.com" ->
             [spec |-> "http://example.com/", valid |-> TRUE, scheme |-> TRUE]
      [] u = "example.com" ->
             [spec |-> "example.com", valid |-> FALSE, scheme |-> FALSE]
      [] OTHER ->
             [spec |-> u, valid |-> FALSE, scheme |-> TRUE]

\* "http://" put before a spec that has no scheme.
WithHttpScheme(spec) == IF spec = "example.com" THEN "http://example.com" ELSE spec

\* url_util::FixupGURL(gurl): a URL without scheme is retried as http; the
\* result says whether the URL can be loaded and what it became.
FixupGURL(gurl) ==
    LET fixed == IF ~gurl.valid /\ ~gurl.scheme
                 THEN MakeGURL(WithHttpScheme(gurl.spec))
                 ELSE gurl
    IN  [ok |-> fixed.valid, gurl |-> fixed]

-----------------------------------------------------------------------------
(* Actions: the closures handed to SendToRenderFrame.  kind and arg/line   *)
(* are what the closure calls on the renderer-side frame.  The other       *)
(* fields record the call that made it: id numbers the closures in the     *)
(* order they were made, uit says whether the call was made on the UI      *)
(* thread, att is is_attached_ at the call, req/reqLine keep what the      *)
(* caller passed.                                                          *)

\* An entry of last_op.
Op(op, arg) == [op |-> op, arg |-> arg]

Action(kind, arg, line, req, reqLine, uit) ==
    [id |-> next_id + 1, kind |-> kind, arg |-> arg, line |-> line,
     req |-> req, reqLine |-> reqLine, uit |-> uit, att |-> is_attached]

\* GetBrowserHostBase() # nullptr
GetBrowserHostBase == browser_info /\ browser_live

\* IsValid()
IsValid == GetBrowserHostBase

\* GetParent(): 0 is nullptr, else the frame the browser keeps under the id.
GetParent ==
    IF is_main_frame \/ parent_frame_id = kInvalidFrameId
    THEN 0
    ELSE IF GetBrowserHostBase THEN parent_frame_id ELSE 0

\* GetFrameId()
GetFrameId == IF is_main_frame THEN kMainFrameId ELSE frame_id

\* GetRenderFrame(): the remote after the lazy bind; remote_ok says whether
\* render_frame_host_->GetRemoteInterfaces() is there.
GetRenderFrame(remote_ok) ==
    IF render_frame = 0 /\ render_frame_host # 0 /\ remote_ok
    THEN render_frame_host
    ELSE render_frame

\* One call on the owning browser, when there is a browser.
CallBrowser(call, arg) ==
    browser_calls' = IF GetBrowserHostBase
                     THEN Append(browser_calls, [call |-> call, arg |-> arg])
                     ELSE browser_calls

\* Mutant of SendOnUIThread: the attach flag is tested before the host, so an
\* action for a handle without host is queued.
SendOnUIThreadQueueFirst(action, remote_ok) ==
    IF ~is_attached
    THEN /\ queued_actions' = Append(queued_actions, action)
         /\ UNCHANGED <<render_frame, peer>>
    ELSE IF render_frame_host = 0
    THEN UNCHANGED <<queued_actions, render_frame, peer>>
    ELSE LET rf == GetRenderFrame(remote_ok)
         IN  /\ render_frame' = rf
             /\ peer' = IF rf # 0
                        THEN Append(peer, [act |-> action, host |-> rf, drain |-> FALSE])
                        ELSE peer
             /\ UNCHANGED queued_actions

\* Mutant of SendOnUIThread: an action that finds no connection after
\* attachment is queued for later.
SendOnUIThreadQueueUnresolved(action, remote_ok) ==
    IF render_frame_host = 0
    THEN UNCHANGED <<queued_actions, render_frame, peer>>
    ELSE IF ~is_attached
    THEN /\ queued_actions' = Append(queued_actions, action)
         /\ UNCHANGED <<render_frame, peer>>
    ELSE LET rf == GetRenderFrame(remote_ok)
         IN  /\ render_frame' = rf
             /\ peer' = IF rf # 0
                        THEN Append(peer, [act |-> action, host |-> rf, drain |-> FALSE])
                        ELSE peer
             /\ queued_actions' = IF rf # 0 THEN queued_actions
                                  ELSE Append(queued_actions, action)

\* SendToRenderFrame on the UI thread: drop, queue or run.
SendOnUIThread(action, remote_ok) ==
    IF render_frame_host = 0
    THEN UNCHANGED <<queued_actions, render_frame, peer>>
    ELSE IF ~is_attached
    THEN /\ queued_actions' = Append(queued_actions, action)
         /\ UNCHANGED <<render_frame, peer>>
    ELSE LET rf == GetRenderFrame(remote_ok)
         IN  /\ render_frame' = rf
             /\ peer' = IF rf # 0
                        THEN Append(peer, [act |-> action, host |-> rf, drain |-> FALSE])
                        ELSE peer
             /\ UNCHANGED queued_actions

\* Mutant of PostToUIThread: the return after CEF_POST_TASK is missing, so the
\* call is posted and also carried on where it stands.
PostAndFallThrough(action) ==
    /\ ui_tasks' = Append(ui_tasks, action)
    /\ SendOnUIThread(action, TRUE)

\* Mutant of PostToUIThread: the call is put ahead of the calls already posted.
PostAheadOfPosted(action) ==
    /\ ui_tasks' = <<action>> \o ui_tasks
    /\ UNCHANGED <<queued_actions, render_frame, peer>>

\* Mutant of PostToUIThread: the thread is tested after the host and the
\* attach flag, so a call made off the UI thread before attachment pushes to
\* the queue where it stands.
PostAfterQueueTest(action) ==
    IF render_frame_host # 0 /\ ~is_attached
    THEN /\ queued_actions' = Append(queued_actions, action)
         /\ UNCHANGED <<ui_tasks, render_frame, peer>>
    ELSE /\ ui_tasks' = Append(ui_tasks, action)
         /\ UNCHANGED <<queued_actions, render_frame, peer>>

\* CEF_POST_TASK(CEF_UIT, SendToRenderFrame(action)) and return.
PostToUIThread(action) ==
    /\ ui_tasks' = Append(ui_tasks, action)
    /\ UNCHANGED <<queued_actions, render_frame, peer>>

\* SendToRenderFrame(action), called on the thread action.uit names.
SendToRenderFrame(action, remote_ok) ==
    IF ~action.uit
    THEN PostToUIThread(action)
    ELSE ui_tasks' = ui_tasks /\ SendOnUIThread(action, remote_ok)

NoSend == UNCHANGED <<ui_tasks, queued_actions, render_frame, peer>>

identity == <<is_main_frame, frame_id, parent_frame_id, url, name>>

-----------------------------------------------------------------------------
(* Construction. *)

\* CefFrameHostImpl(browser_info, is_main_frame, parent_frame_id); the DCHECKs
\* want kInvalidFrameId as parent of the main frame and a positive id otherwise.
PreBindingCtor(main, parent) ==
    /\ is_main_frame = main
    /\ frame_id = kInvalidFrameId
    /\ parent_frame_id = parent
    /\ url = ""
    /\ name = ""
    /\ is_focused = main
    /\ render_frame_host = 0

\* CefFrameHostImpl(browser_info, render_frame_host)
BoundCtor(host) ==
    /\ is_main_frame = (HostParent(host) = 0)
    /\ parent_frame_id = IF HostParent(host) = 0 THEN kInvalidFrameId
                         ELSE MakeFrameId(HostParent(host))
    /\ is_focused = (HostParent(host) = 0)
    /\ render_frame_host = host
    /\ frame_id = MakeFrameId(host)
    /\ url = HostURL(host)
    /\ name = HostFrameName(host)

Init ==
    /\ \/ PreBindingCtor(TRUE, kInvalidFrameId)
       \/ PreBindingCtor(FALSE, MakeFrameId(4))
       \/ \E h \in Hosts : BoundCtor(h)
    /\ browser_info = TRUE
    /\ browser_live = TRUE
    /\ render_frame = 0
    /\ is_attached = FALSE
    /\ queued_actions = <<>>
    /\ ui_tasks = <<>>
    /\ peer = <<>>
    /\ browser_calls = <<>>
    /\ aborted = FALSE
    /\ next_id = 0
    /\ attach_calls = 0
    /\ last_op = Op("ctor", "")

-----------------------------------------------------------------------------
(* Lifecycle operations, all on the UI thread. *)

\* Mutant of SetRenderFrameHost: frame_id_ is not taken from the new host.
SetRenderFrameHostStaleId(host) ==
    /\ ~aborted
    /\ (HostParent(host) = 0) = is_main_frame
    /\ last_op' = Op("SetRenderFrameHost", "")
    /\ IF ~browser_info
       THEN /\ aborted' = TRUE
            /\ UNCHANGED <<identity, is_focused, browser_info, browser_live,
                           render_frame_host, render_frame, is_attached,
                           queued_actions, ui_tasks, peer, browser_calls,
                           next_id, attach_calls>>
       ELSE /\ render_frame' = 0
            /\ render_frame_host' = host
            /\ url' = HostURL(host)
            /\ name' = HostFrameName(host)
            /\ UNCHANGED <<is_main_frame, frame_id, parent_frame_id, is_focused,
                           browser_info, browser_live, is_attached, queued_actions,
                           ui_tasks, peer, browser_calls, aborted, next_id,
                           attach_calls>>

\* Mutant of SetRenderFrameHost: the CHECK is a DCHECK, compiled out.
SetRenderFrameHostUnchecked(host) ==
    /\ ~aborted
    /\ (HostParent(host) = 0) = is_main_frame
    /\ last_op' = Op("SetRenderFrameHost", "")
    /\ render_frame' = 0
    /\ render_frame_host' = host
    /\ frame_id' = MakeFrameId(host)
    /\ url' = HostURL(host)
    /\ name' = HostFrameName(host)
    /\ UNCHANGED <<is_main_frame, parent_frame_id, is_focused, browser_info,
                   browser_live, is_attached, queued_actions, ui_tasks,
                   peer, browser_calls, aborted, next_id, attach_calls>>

\* Mutant of SetRenderFrameHost: render_frame_.reset() is missing.
SetRenderFrameHostKeepRemote(host) ==
    /\ ~aborted
    /\ (HostParent(host) = 0) = is_main_frame
    /\ last_op' = Op("SetRenderFrameHost", "")
    /\ IF ~browser_info
       THEN /\ aborted' = TRUE
            /\ UNCHANGED <<identity, is_focused, browser_info, browser_live,
                           render_frame_host, render_frame, is_attached,
                           queued_actions, ui_tasks, peer, browser_calls,
                           next_id, attach_calls>>
       ELSE /\ render_frame_host' = host
            /\ frame_id' = MakeFrameId(host)
            /\ url' = HostURL(host)
            /\ name' = HostFrameName(host)
            /\ UNCHANGED <<is_main_frame, parent_frame_id, is_focused, browser_info,
                           browser_live, render_frame, is_attached, queued_actions,
                           ui_tasks, peer, browser_calls, aborted, next_id,
                           attach_calls>>

\* Mutant of SetRenderFrameHost: a new host starts out not attached.
SetRenderFrameHostResetsAttach(host) ==
    /\ ~aborted
    /\ (HostParent(host) = 0) = is_main_frame
    /\ last_op' = Op("SetRenderFrameHost", "")
    /\ IF ~browser_info
       THEN /\ aborted' = TRUE
            /\ UNCHANGED <<identity, is_focused, browser_info, browser_live,
                           render_frame_host, render_frame, is_attached,
                           queued_actions, ui_tasks, peer, browser_calls,
                           next_id, attach_calls>>
       ELSE /\ render_frame' = 0
            /\ render_frame_host' = host
            /\ is_attached' = FALSE
            /\ frame_id' = MakeFrameId(host)
            /\ url' = HostURL(host)
            /\ name' = HostFrameName(host)
            /\ UNCHANGED <<is_main_frame, parent_frame_id, is_focused, browser_info,
                           browser_live, queued_actions, ui_tasks,
                           peer, browser_calls, aborted, next_id, attach_calls>>

\* SetRenderFrameHost(host); the browser binds a main-frame handle to hosts
\* without parent and any other handle to hosts with one.
SetRenderFrameHost(host) ==
    /\ ~aborted
    /\ (HostParent(host) = 0) = is_main_frame
    /\ last_op' = Op("SetRenderFrameHost", "")
    /\ IF ~browser_info
       THEN /\ aborted' = TRUE
            /\ UNCHANGED <<identity, is_focused, browser_info, browser_live,
                           render_frame_host, render_frame, is_attached,
                           queued_actions, ui_tasks, peer, browser_calls,
                           next_id, attach_calls>>
       ELSE /\ render_frame' = 0
            /\ render_frame_host' = host
            /\ frame_id' = MakeFrameId(host)
            /\ url' = HostURL(host)
            /\ name' = HostFrameName(host)
            /\ UNCHANGED <<is_main_frame, parent_frame_id, is_focused, browser_info,
                           browser_live, is_attached, queued_actions, ui_tasks,
                           peer, browser_calls, aborted, next_id, attach_calls>>

\* Mutant of Detach: render_frame_host_ is not cleared.
DetachKeepHost ==
    /\ ~aborted
    /\ last_op' = Op("Detach", "")
    /\ browser_info' = FALSE
    /\ queued_actions' = <<>>
    /\ render_frame' = 0
    /\ UNCHANGED <<identity, is_focused, browser_live, render_frame_host, is_attached,
                   ui_tasks, peer, browser_calls, aborted, next_id, attach_calls>>

\* Mutant of Detach: the loop that empties queued_actions_ is missing.
DetachKeepQueue ==
    /\ ~aborted
    /\ last_op' = Op("Detach", "")
    /\ browser_info' = FALSE
    /\ render_frame' = 0
    /\ render_frame_host' = 0
    /\ UNCHANGED <<identity, is_focused, browser_live, is_attached, queued_actions,
                   ui_tasks, peer, browser_calls, aborted, next_id, attach_calls>>

\* Detach()
Detach ==
    /\ ~aborted
    /\ last_op' = Op("Detach", "")
    /\ browser_info' = FALSE
    /\ queued_actions' = <<>>
    /\ render_frame' = 0
    /\ render_frame_host' = 0
    /\ UNCHANGED <<identity, is_focused, browser_live, is_attached, ui_tasks, peer,
                   browser_calls, aborted, next_id, attach_calls>>

\* What FrameAttached() made of the queue, for last_op: it ran the queued
\* actions, it dropped them for want of a connection, or it had none to drain.
Drained(remote_ok) ==
    IF is_attached \/ queued_actions = <<>> THEN ""
    ELSE IF GetRenderFrame(remote_ok) # 0 THEN "run" ELSE "dropped"

\* Mutant of DrainQueue: the queue is emptied from the back.
DrainQueueLifo(rf) ==
    [i \in 1..Len(queued_actions) |->
        [act |-> queued_actions[Len(queued_actions) + 1 - i], host |-> rf,
         drain |-> TRUE]]

\* The queue run against the remote, front first.
DrainQueue(rf) ==
    [i \in 1..Len(queued_actions) |->
        [act |-> queued_actions[i], host |-> rf, drain |-> TRUE]]

\* Mutant of FrameAttached: the test of is_attached_ is missing.
FrameAttachedUnguarded(remote_ok) ==
    /\ ~aborted
    /\ attach_calls' = attach_calls + 1
    /\ last_op' = Op("FrameAttached", Drained(remote_ok))
    /\ LET rf == GetRenderFrame(remote_ok)
       IN  /\ is_attached' = TRUE
           /\ render_frame' = rf
           /\ peer' = IF rf # 0 THEN peer \o DrainQueue(rf) ELSE peer
           /\ queued_actions' = <<>>
    /\ UNCHANGED <<identity, is_focused, browser_info, browser_live,
                   render_frame_host, ui_tasks, browser_calls, aborted, next_id>>

\* Mutant of FrameAttached: pop() sits inside if (render_frame), so actions
\* that could not be run stay queued.
FrameAttachedKeepUndelivered(remote_ok) ==
    /\ ~aborted
    /\ attach_calls' = attach_calls + 1
    /\ last_op' = Op("FrameAttached", Drained(remote_ok))
    /\ IF ~is_attached
       THEN LET rf == GetRenderFrame(remote_ok)
            IN  /\ is_attached' = TRUE
                /\ render_frame' = rf
                /\ peer' = IF rf # 0 THEN peer \o DrainQueue(rf) ELSE peer
                /\ queued_actions' = IF rf # 0 THEN <<>> ELSE queued_actions
       ELSE UNCHANGED <<is_attached, render_frame, peer, queued_actions>>
    /\ UNCHANGED <<identity, is_focused, browser_info, browser_live,
                   render_frame_host, ui_tasks, browser_calls, aborted, next_id>>

\* Mutant of FrameAttached: the flag is set and the drain loop is missing.
FrameAttachedFlagOnly(remote_ok) ==
    /\ ~aborted
    /\ attach_calls' = attach_calls + 1
    /\ last_op' = Op("FrameAttached", Drained(remote_ok))
    /\ is_attached' = TRUE
    /\ UNCHANGED <<identity, is_focused, browser_info, browser_live,
                   render_frame_host, render_frame, queued_actions, peer,
                   ui_tasks, browser_calls, aborted, next_id>>

\* FrameAttached()
FrameAttached(remote_ok) ==
    /\ ~aborted
    /\ attach_calls' = attach_calls + 1
    /\ last_op' = Op("FrameAttached", Drained(remote_ok))
    /\ IF ~is_attached
       THEN LET rf == GetRenderFrame(remote_ok)
            IN  /\ is_attached' = TRUE
                /\ render_frame' = rf
                /\ peer' = IF rf # 0 THEN peer \o DrainQueue(rf) ELSE peer
                /\ queued_actions' = <<>>
       ELSE UNCHANGED <<is_attached, render_frame, peer, queued_actions>>
    /\ UNCHANGED <<identity, is_focused, browser_info, browser_live,
                   render_frame_host, ui_tasks, browser_calls, aborted, next_id>>

\* SetFocused(focused)
SetFocused(focused) ==
    /\ ~aborted
    /\ last_op' = Op("SetFocused", "")
    /\ is_focused' = focused
    /\ UNCHANGED <<identity, browser_info, browser_live, render_frame_host,
                   render_frame, is_attached, queued_actions, ui_tasks, peer,
                   browser_calls, aborted, next_id, attach_calls>>

\* Mutant of RefreshAttributes: the parent id is taken from the host itself,
\* for the main frame too.
RefreshAttributesOwnId ==
    /\ ~aborted
    /\ last_op' = Op("RefreshAttributes", "")
    /\ IF render_frame_host = 0
       THEN UNCHANGED <<url, name, parent_frame_id>>
       ELSE /\ url' = HostURL(render_frame_host)
            /\ name' = IF HostFrameName(render_frame_host) = ""
                       THEN HostUniqueName(render_frame_host)
                       ELSE HostFrameName(render_frame_host)
            /\ parent_frame_id' = MakeFrameId(render_frame_host)
    /\ UNCHANGED <<is_main_frame, frame_id, is_focused, browser_info, browser_live,
                   render_frame_host, render_frame, is_attached, queued_actions,
                   ui_tasks, peer, browser_calls, aborted, next_id, attach_calls>>

\* RefreshAttributes()
RefreshAttributes ==
    /\ ~aborted
    /\ last_op' = Op("RefreshAttributes", "")
    /\ IF render_frame_host = 0
       THEN UNCHANGED <<url, name, parent_frame_id>>
       ELSE /\ url' = HostURL(render_frame_host)
            /\ name' = IF HostFrameName(render_frame_host) = ""
                       THEN HostUniqueName(render_frame_host)
                       ELSE HostFrameName(render_frame_host)
            /\ parent_frame_id' = IF is_main_frame THEN parent_frame_id
                                  ELSE MakeFrameId(HostParent(render_frame_host))
    /\ UNCHANGED <<is_main_frame, frame_id, is_focused, browser_info, browser_live,
                   render_frame_host, render_frame, is_attached, queued_actions,
                   ui_tasks, peer, browser_calls, aborted, next_id, attach_calls>>

\* The owning browser goes away: browser_info_->browser() turns null.
BrowserDestroyed ==
    /\ ~aborted
    /\ browser_live
    /\ browser_live' = FALSE
    /\ last_op' = Op("BrowserDestroyed", "")
    /\ UNCHANGED <<handle, ui_tasks, peer, browser_calls, aborted, next_id,
                   attach_calls>>

\* The UI thread runs the oldest re-posted SendToRenderFrame call.
RunTask(remote_ok) ==
    /\ ~aborted
    /\ ui_tasks # <<>>
    /\ last_op' = Op("RunTask", "")
    /\ ui_tasks' = Tail(ui_tasks)
    /\ SendOnUIThread(Head(ui_tasks), remote_ok)
    /\ UNCHANGED <<identity, is_focused, browser_info, browser_live,
                   render_frame_host, is_attached, browser_calls, aborted,
                   next_id, attach_calls>>

-----------------------------------------------------------------------------
(* Operations of the frame: callable on any thread (uit says whether the   *)
(* caller is on the UI thread).  Each builds its closure and calls         *)
(* SendToRenderFrame.                                                      *)

Commands == {"Undo"}

StartLines == {-1, 0, 1, 2}

ScriptBodies == {"", "f()"}

others == <<browser_live, aborted, attach_calls>>

\* One action was made and handed to SendToRenderFrame.
Sent(action, remote_ok) ==
    /\ next_id' = action.id
    /\ SendToRenderFrame(action, remote_ok)

\* Undo(), Redo(), Cut(), Copy(), Paste(), Delete(), SelectAll() -> SendCommand
SendCommand(command, uit, remote_ok) ==
    /\ ~aborted
    /\ last_op' = Op("SendCommand", "")
    /\ Sent(Action("SendCommand", command, 0, command, 0, uit), remote_ok)
    /\ UNCHANGED <<identity, is_focused, browser_info, render_frame_host,
                   is_attached, browser_calls, others>>

\* Mutant of SendJavaScript: the start line is clamped under startLine < 0.
SendJavaScriptZeroPasses(jsCode, startLine, uit, remote_ok) ==
    /\ ~aborted
    /\ last_op' = Op("SendJavaScript", jsCode)
    /\ IF jsCode = ""
       THEN NoSend /\ UNCHANGED next_id
       ELSE Sent(Action("SendJavaScript", jsCode,
                        IF startLine < 0 THEN 1 ELSE startLine,
                        jsCode, startLine, uit), remote_ok)
    /\ UNCHANGED <<identity, is_focused, browser_info, render_frame_host,
                   is_attached, browser_calls, others>>

\* ExecuteJavaScript(jsCode, scriptUrl, startLine) -> SendJavaScript
SendJavaScript(jsCode, startLine, uit, remote_ok) ==
    /\ ~aborted
    /\ last_op' = Op("SendJavaScript", jsCode)
    /\ IF jsCode = ""
       THEN NoSend /\ UNCHANGED next_id
       ELSE Sent(Action("SendJavaScript", jsCode,
                        IF startLine <= 0 THEN 1 ELSE startLine,
                        jsCode, startLine, uit), remote_ok)
    /\ UNCHANGED <<identity, is_focused, browser_info, render_frame_host,
                   is_attached, browser_calls, others>>

\* SendProcessMessage(PID_RENDERER, message); valid is message && message->IsValid()
SendProcessMessage(valid, uit, remote_ok) ==
    /\ ~aborted
    /\ last_op' = Op("SendProcessMessage", "")
    /\ IF ~valid
       THEN NoSend /\ UNCHANGED next_id
       ELSE Sent(Action("SendMessage", "msg", 0, "msg", 0, uit), remote_ok)
    /\ UNCHANGED <<identity, is_focused, browser_info, render_frame_host,
                   is_attached, browser_calls, others>>

\* LoadRequest(params): fix the URL up, send, then ask the browser for focus.
LoadRequestParams(req, gurl, uit, remote_ok) ==
    LET fix == FixupGURL(gurl)
    IN  IF ~fix.ok
        THEN NoSend /\ UNCHANGED <<next_id, browser_calls>>
        ELSE /\ Sent(Action("LoadRequest", fix.gurl.spec, 0, req, 0, uit), remote_ok)
             /\ CallBrowser("OnSetFocus", "FOCUS_SOURCE_NAVIGATION")

\* Mutant of LoadRequest: the frame id is tested as LoadURLWithExtras tests it.
LoadRequestKnownIdOnly(u, uit, remote_ok) ==
    /\ ~aborted
    /\ last_op' = Op("LoadRequest", u)
    /\ IF GetFrameId < kMainFrameId
       THEN NoSend /\ UNCHANGED <<next_id, browser_calls>>
       ELSE LoadRequestParams(u, MakeGURL(u), uit, remote_ok)
    /\ UNCHANGED <<identity, is_focused, browser_info, render_frame_host,
                   is_attached, others>>

\* LoadRequest(request): the request's URL goes to LoadRequest(params).
LoadRequest(u, uit, remote_ok) ==
    /\ ~aborted
    /\ last_op' = Op("LoadRequest", u)
    /\ LoadRequestParams(u, MakeGURL(u), uit, remote_ok)
    /\ UNCHANGED <<identity, is_focused, browser_info, render_frame_host,
                   is_attached, others>>

\* Mutant of LoadURL: the main frame takes the renderer path like any frame.
LoadURLViaRenderFrame(u, uit, remote_ok) ==
    /\ ~aborted
    /\ last_op' = Op("LoadURL", u)
    /\ IF GetFrameId < kMainFrameId
       THEN NoSend /\ UNCHANGED <<next_id, browser_calls>>
       ELSE LoadRequestParams(u, MakeGURL(u), uit, remote_ok)
    /\ UNCHANGED <<identity, is_focused, browser_info, render_frame_host,
                   is_attached, others>>

\* LoadURL(url) -> LoadURLWithExtras
LoadURL(u, uit, remote_ok) ==
    /\ ~aborted
    /\ last_op' = Op("LoadURL", u)
    /\ IF GetFrameId < kMainFrameId
       THEN NoSend /\ UNCHANGED <<next_id, browser_calls>>
       ELSE IF GetFrameId = kMainFrameId
       THEN /\ CallBrowser("LoadMainFrameURL", MakeGURL(u).spec)
            /\ NoSend /\ UNCHANGED next_id
       ELSE LoadRequestParams(u, MakeGURL(u), uit, remote_ok)
    /\ UNCHANGED <<identity, is_focused, browser_info, render_frame_host,
                   is_attached, others>>

-----------------------------------------------------------------------------
(* Notifications, on the UI thread. *)

\* NotifyMoveOrResizeStarted()
NotifyMoveOrResizeStarted(remote_ok) ==
    /\ ~aborted
    /\ last_op' = Op("NotifyMoveOrResizeStarted", "")
    /\ Sent(Action("MoveOrResizeStarted", "", 0, "", 0, TRUE), remote_ok)
    /\ UNCHANGED <<identity, is_focused, browser_info, render_frame_host,
                   is_attached, browser_calls, others>>

\* Mutant of ParentInSameProcess: the processes are not compared.
ParentExists(rfh) == HostParent(rfh) # 0

\* rfh_parent && rfh_parent->GetProcess() == rfh->GetProcess()
ParentInSameProcess(rfh) ==
    HostParent(rfh) # 0 /\ HostProcess(HostParent(rfh)) = HostProcess(rfh)

\* MaybeSendDidStopLoading(); reqLine keeps the host the notification is for.
MaybeSendDidStopLoading(remote_ok) ==
    /\ ~aborted
    /\ last_op' = Op("MaybeSendDidStopLoading", "")
    /\ IF render_frame_host = 0 \/ ParentInSameProcess(render_frame_host)
       THEN NoSend /\ UNCHANGED next_id
       ELSE Sent(Action("DidStopLoading", "", 0, "", render_frame_host, TRUE),
                 remote_ok)
    /\ UNCHANGED <<identity, is_focused, browser_info, render_frame_host,
                   is_attached, browser_calls, others>>

\* DidFinishFrameLoad(validated_url, http_status_code)
DidFinishFrameLoad ==
    /\ ~aborted
    /\ last_op' = Op("DidFinishFrameLoad", "")
    /\ CallBrowser("OnDidFinishLoad", "")
    /\ NoSend
    /\ UNCHANGED <<identity, is_focused, browser_info, render_frame_host,
                   is_attached, next_id, others>>

-----------------------------------------------------------------------------
(* Specifications.  Every one runs the lifecycle of the handle; they       *)
(* differ in the operations issued on it and in how many.                  *)

\* Binding, attachment, teardown and the UI thread's task loop.
Lifecycle ==
    \/ \E h \in Hosts : SetRenderFrameHost(h)
    \/ Detach
    \/ attach_calls < MaxAttachCalls /\ \E ok \in BOOLEAN : FrameAttached(ok)

\* The dispatch core under editing commands from the UI thread and from others.
NextDispatch ==
    \/ Lifecycle
    \/ \E ok \in BOOLEAN : RunTask(ok)
    \/ next_id < MaxActions /\
         \E c \in Commands, uit \in BOOLEAN, ok \in BOOLEAN : SendCommand(c, uit, ok)

SpecDispatch == Init /\ [][NextDispatch]_vars

\* Script execution with every body and start line.
NextScript ==
    \/ Lifecycle
    \/ \E ok \in BOOLEAN : RunTask(ok)
    \/ next_id < MaxCalls /\
         \E js \in ScriptBodies, l \in StartLines, uit \in BOOLEAN, ok \in BOOLEAN :
            SendJavaScript(js, l, uit, ok)

SpecScript == Init /\ [][NextScript]_vars

\* Navigation with every URL.
NextNavigation ==
    \/ Lifecycle
    \/ \E ok \in BOOLEAN : RunTask(ok)
    \/ BrowserDestroyed
    \/ next_id < MaxCalls /\ Len(browser_calls) < MaxBrowserCalls /\
         \E u \in UrlInputs, uit \in BOOLEAN, ok \in BOOLEAN : LoadRequest(u, uit, ok)
    \/ next_id < MaxCalls /\ Len(browser_calls) < MaxBrowserCalls /\
         \E u \in UrlInputs, uit \in BOOLEAN, ok \in BOOLEAN : LoadURL(u, uit, ok)

SpecNavigation == Init /\ [][NextNavigation]_vars

\* The renderer is there whenever it is asked for: every connection resolves.
\* Commands come from the UI thread and from others.
NextLive ==
    \/ \E h \in Hosts : SetRenderFrameHost(h)
    \/ Detach
    \/ attach_calls < MaxAttachCalls /\ FrameAttached(TRUE)
    \/ RunTask(TRUE)
    \/ next_id < MaxLiveActions /\
         \E c \in Commands, uit \in BOOLEAN : SendCommand(c, uit, TRUE)

\* The UI thread runs every task posted to it.
SpecLive == Init /\ [][NextLive]_vars /\ WF_vars(RunTask(TRUE))

\* Every operation, each with one argument; editing commands come from the
\* UI thread and from others, the rest from the UI thread.
Next ==
    \/ Lifecycle
    \/ \E ok \in BOOLEAN : RunTask(ok)
    \/ \E f \in BOOLEAN : SetFocused(f)
    \/ RefreshAttributes
    \/ next_id < MaxCalls /\
         \E uit \in BOOLEAN, ok \in BOOLEAN : SendCommand("Undo", uit, ok)
    \/ next_id < MaxCalls /\ \E ok \in BOOLEAN : SendJavaScript("f()", 0, TRUE, ok)
    \/ next_id < MaxCalls /\
         \E v \in BOOLEAN, ok \in BOOLEAN : SendProcessMessage(v, TRUE, ok)
    \/ next_id < MaxCalls /\ Len(browser_calls) < MaxBrowserCalls /\
         \E ok \in BOOLEAN : LoadRequest("https://example.com", TRUE, ok)
    \/ next_id < MaxCalls /\ Len(browser_calls) < MaxBrowserCalls /\
         \E ok \in BOOLEAN : LoadURL("https://example.com", TRUE, ok)
    \/ next_id < MaxCalls /\ \E ok \in BOOLEAN : NotifyMoveOrResizeStarted(ok)
    \/ next_id < MaxCalls /\ \E ok \in BOOLEAN : MaybeSendDidStopLoading(ok)
    \/ Len(browser_calls) < MaxBrowserCalls /\ DidFinishFrameLoad

Spec == Init /\ [][Next]_vars

-----------------------------------------------------------------------------
(* Properties of the dispatch core, checked under SpecDispatch.            *)

\* The actions waiting somewhere: re-posted and not yet run, or queued.
Waiting == [i \in 1..(Len(ui_tasks) + Len(queued_actions)) |->
              IF i <= Len(ui_tasks) THEN ui_tasks[i]
              ELSE queued_actions[i - Len(ui_tasks)]]

\* Entries i < j of the peer's log hold actions made in that order.
InIssueOrder(i, j) == peer[i].act.id < peer[j].act.id

\* The step is the drain of FrameAttached(): is_attached_ turns true.
IsDrain == ~is_attached /\ is_attached'

\* C1 as stated: the actions the drain delivers reach the peer in the order
\* in which they were issued, whatever thread issued them.
C1_DrainInIssueOrder ==
    \A i, j \in 1..Len(peer) :
        (i < j /\ peer[i].drain /\ peer[j].drain) => InIssueOrder(i, j)

\* C1 amended: the drain delivers the whole queue front first, or nothing when
\* the connection does not resolve, and empties it; among the drained actions
\* those issued on the UI thread are in issue order, and so are those issued on
\* other threads (each is queued when its re-posted call runs).
C1_DrainInQueueOrder ==
    /\ [](\A i, j \in 1..Len(peer) :
            (i < j /\ peer[i].drain /\ peer[j].drain
               /\ peer[i].act.uit = peer[j].act.uit) => InIssueOrder(i, j))
    /\ [][IsDrain =>
            /\ queued_actions' = <<>>
            /\ \/ peer' = peer
               \/ /\ Len(peer') = Len(peer) + Len(queued_actions)
                  /\ \A k \in 1..Len(queued_actions) :
                        /\ peer'[Len(peer) + k].act = queued_actions[k]
                        /\ peer'[Len(peer) + k].drain
                        /\ peer'[Len(peer) + k].host = render_frame_host
                  /\ \A k \in 1..Len(peer) : peer'[k] = peer[k]]_vars

\* C1 witness: three actions drained, the second one issued off the UI thread
\* between two issued on it.
C1_Witness ==
    /\ Len(peer) = 3
    /\ \A i \in 1..3 : peer[i].drain /\ peer[i].act.id = i
    /\ peer[1].act.uit /\ ~peer[2].act.uit /\ peer[3].act.uit

\* C3: a FrameAttached() on an attached handle changes nothing and delivers
\* nothing, and once attached nothing is drained again.
C3_AttachIdempotent ==
    /\ [][(is_attached /\ attach_calls' # attach_calls) =>
            UNCHANGED <<handle, ui_tasks, peer, browser_calls, aborted, next_id>>]_vars
    /\ [][is_attached =>
            /\ is_attached'
            /\ \A k \in 1..Len(peer') : peer'[k].drain => (k <= Len(peer) /\ peer[k].drain)]_vars

\* C3 witness: FrameAttached() came twice, the drain delivered something and
\* an action was delivered after it.
C3_Witness ==
    /\ attach_calls = 2
    /\ last_op.op = "FrameAttached"
    /\ Len(peer) >= 2
    /\ peer[1].drain
    /\ ~peer[Len(peer)].drain

\* C4: no action runs against the peer twice, and an action that ran is not
\* waiting anywhere to run again.
C4_NoDuplicateDelivery ==
    /\ \A i, j \in 1..Len(peer) : i # j => peer[i].act.id # peer[j].act.id
    /\ \A i, j \in 1..Len(Waiting) : i # j => Waiting[i].id # Waiting[j].id
    /\ \A i \in 1..Len(peer), j \in 1..Len(Waiting) : peer[i].act.id # Waiting[j].id

\* C4 witness: of three actions issued, one off the UI thread, two were
\* delivered and one was dropped.
C4_Witness ==
    /\ next_id = 3
    /\ Len(peer) = 2
    /\ Len(Waiting) = 0
    /\ \E i \in 1..2 : ~peer[i].act.uit

\* C5: an attached handle has an empty queue.
C5_QueueEmptyWhenAttached == is_attached => queued_actions = <<>>

\* C5 witness: attached with three actions issued, of which the one that
\* reached the peer was issued after attachment.
C5_Witness ==
    /\ is_attached
    /\ next_id = 3
    /\ Len(peer) = 1
    /\ peer[1].act.att

\* C10 as stated: actions issued after attachment reach the peer in the order
\* of their SendToRenderFrame calls, whatever thread made the calls.
C10_CallOrderAcrossThreads ==
    \A i, j \in 1..Len(peer) :
        (i < j /\ peer[i].act.att /\ peer[j].act.att) => InIssueOrder(i, j)

\* C10 amended: two actions issued after attachment reach the peer in call
\* order when both calls were made on the UI thread or both off it.
C10_CallOrderPerThreadKind ==
    \A i, j \in 1..Len(peer) :
        (i < j /\ peer[i].act.att /\ peer[j].act.att
           /\ peer[i].act.uit = peer[j].act.uit) => InIssueOrder(i, j)

\* C10 witness: after attachment a call made off the UI thread is delivered
\* behind one made later on the UI thread, and ahead of a later one made off it.
C10_Witness ==
    /\ Len(peer) = 3
    /\ \A i \in 1..3 : peer[i].act.att
    /\ peer[1].act.id = 2 /\ peer[1].act.uit
    /\ peer[2].act.id = 1 /\ ~peer[2].act.uit
    /\ peer[3].act.id = 3 /\ ~peer[3].act.uit

-----------------------------------------------------------------------------
(* Properties of the whole handle, checked under Spec.                     *)

\* What an operation can deliver to: the peer and the owning browser.
delivered == <<peer, browser_calls>>

\* C2 as stated: once detached, no step changes the handle, delivers to the
\* peer or the browser, or ends the process, and the handle is not valid.
C2_NoOpAfterDetach ==
    /\ [](~browser_info => ~IsValid)
    /\ [][~browser_info => UNCHANGED <<handle, delivered, aborted>>]_vars

\* C2 amended: once detached, the browser reference stays null, IsValid() is
\* false, nothing is delivered to the peer or the browser, and the frame's
\* identity, bound host, connection and (empty) queue do not change; only
\* SetFocused changes is_focused_, only FrameAttached changes is_attached_, and
\* only SetRenderFrameHost ends the process, at its CHECK.
C2_InertAfterDetach ==
    /\ [](~browser_info =>
            /\ ~IsValid
            /\ render_frame_host = 0 /\ render_frame = 0 /\ queued_actions = <<>>)
    /\ [][~browser_info =>
            /\ ~browser_info'
            /\ UNCHANGED <<delivered, identity, render_frame_host, render_frame,
                           queued_actions>>
            /\ (is_focused' # is_focused => last_op'.op = "SetFocused")
            /\ (is_attached' # is_attached => last_op'.op = "FrameAttached")
            /\ (aborted' # aborted => last_op'.op = "SetRenderFrameHost")]_vars

\* C2 witness: a handle detached with an action issued and never delivered, and
\* SetFocused(false) invoked on it afterwards.
C2_Witness ==
    /\ ~browser_info
    /\ is_main_frame
    /\ next_id = 1
    /\ peer = <<>>
    /\ last_op.op = "SetFocused"
    /\ ~is_focused

\* The four sentinels.
Sentinels == {kMainFrameId, kFocusedFrameId, kUnspecifiedFrameId, kInvalidFrameId}

\* C6 as stated: frame_id_ is kInvalidFrameId exactly while no host is bound,
\* and the bound host's id while one is.
C6_InvalidIdWhileUnbound ==
    /\ render_frame_host = 0 => frame_id = kInvalidFrameId
    /\ render_frame_host # 0 =>
         frame_id = MakeFrameId(render_frame_host) /\ frame_id \notin Sentinels

\* C6 amended: frame_id_ is kInvalidFrameId while no host has been bound yet,
\* the bound host's id while one is bound, and Detach(), which clears the
\* host, leaves frame_id_ as it was.
C6_IdKeptAcrossDetach ==
    /\ []((render_frame_host = 0 /\ browser_info) => frame_id = kInvalidFrameId)
    /\ [](render_frame_host # 0 =>
            frame_id = MakeFrameId(render_frame_host) /\ frame_id \notin Sentinels)
    /\ [][render_frame_host' = 0 => frame_id' = frame_id]_vars

\* C6 witness: a detached handle that still carries the id of host 3.
C6_Witness ==
    /\ ~browser_info
    /\ render_frame_host = 0
    /\ frame_id = MakeFrameId(3)

\* The step handed one action of this kind to the dispatch core on the UI
\* thread: queued before attachment, afterwards run against the peer or, with
\* no connection, dropped.
DispatchedOnUIThread(kind) ==
    LET made(a) == a.kind = kind /\ a.id = next_id' /\ a.uit
    IN  /\ next_id' = next_id + 1
        /\ ui_tasks' = ui_tasks
        /\ IF render_frame_host = 0
           THEN UNCHANGED <<queued_actions, peer>>
           ELSE IF ~is_attached
           THEN /\ peer' = peer
                /\ Len(queued_actions') = Len(queued_actions) + 1
                /\ made(queued_actions'[Len(queued_actions')])
           ELSE /\ queued_actions' = queued_actions
                /\ \/ peer' = peer /\ render_frame' = 0
                   \/ /\ Len(peer') = Len(peer) + 1
                      /\ made(peer'[Len(peer')].act)
                      /\ peer'[Len(peer')].host = render_frame_host

\* C9: MaybeSendDidStopLoading() does nothing for a handle without host or
\* with a parent in the same process, and otherwise hands DidStopLoading to the
\* dispatch core; no DidStopLoading exists for a frame with such a parent.
C9_DidStopLoading ==
    /\ [](\A i \in 1..Len(peer) :
            peer[i].act.kind = "DidStopLoading" =>
               \/ HostParent(peer[i].act.reqLine) = 0
               \/ HostProcess(HostParent(peer[i].act.reqLine))
                    # HostProcess(peer[i].act.reqLine))
    /\ [][last_op'.op = "MaybeSendDidStopLoading" =>
            IF \/ render_frame_host = 0
               \/ /\ HostParent(render_frame_host) # 0
                  /\ HostProcess(HostParent(render_frame_host))
                       = HostProcess(render_frame_host)
            THEN UNCHANGED <<handle, ui_tasks, delivered, next_id>>
            ELSE DispatchedOnUIThread("DidStopLoading")]_vars

\* C9 witness: DidStopLoading delivered for host 3, a child in another
\* process than its parent.
C9_Witness ==
    /\ render_frame_host = 3
    /\ last_op.op = "MaybeSendDidStopLoading"
    /\ Len(peer) = 1
    /\ peer[1].act.kind = "DidStopLoading"
    /\ peer[1].host = 3

-----------------------------------------------------------------------------
(* Properties of navigation, checked under SpecNavigation.                 *)

\* Every action there is: re-posted, queued or run against the peer.
AllActions ==
    {Waiting[i] : i \in 1..Len(Waiting)} \cup {peer[i].act : i \in 1..Len(peer)}

\* The step made one call on the browser, and it was this one.
BrowserCalled(call, arg) ==
    browser_calls' = Append(browser_calls, [call |-> call, arg |-> arg])

\* The step handed its action to SendToRenderFrame: a LoadRequest whose URL is
\* the caller's after fixup.
SentLoadRequest(u) ==
    /\ next_id' = next_id + 1
    /\ \A a \in AllActions' :
          a.id = next_id' =>
             /\ a.kind = "LoadRequest"
             /\ a.req = u
             /\ a.arg = FixupGURL(MakeGURL(u)).gurl.spec
    /\ \/ \E a \in AllActions' : a.id = next_id'
       \/ UNCHANGED <<ui_tasks, queued_actions, peer>>

\* The step was LoadURL or LoadRequest.
IsNavigation == last_op'.op \in {"LoadURL", "LoadRequest"}

\* C7 as stated: a navigation on the main frame calls LoadMainFrameURL and
\* hands nothing to SendToRenderFrame; a navigation on any other frame hands a
\* LoadRequest with the fixed-up URL to SendToRenderFrame and does not call
\* LoadMainFrameURL.
C7_MainFrameBypassesRenderFrame ==
    [][IsNavigation =>
         IF is_main_frame
         THEN /\ BrowserCalled("LoadMainFrameURL", MakeGURL(last_op'.arg).spec)
              /\ UNCHANGED <<next_id, ui_tasks, queued_actions, peer>>
         ELSE /\ SentLoadRequest(last_op'.arg)
              /\ \A i \in 1..Len(browser_calls') :
                    browser_calls'[i].call # "LoadMainFrameURL"]_vars

\* C7 amended: LoadURL on the main frame hands nothing to SendToRenderFrame and
\* calls LoadMainFrameURL when the browser is still there.  LoadRequest on any
\* frame, the main frame too, and LoadURL on another frame that has been bound
\* hand a LoadRequest with the fixed-up URL to SendToRenderFrame and then call
\* OnSetFocus when the browser is still there, never LoadMainFrameURL; they do
\* nothing when the URL cannot be fixed up.  LoadURL on another frame that was
\* never bound does nothing.
C7_NavigationPaths ==
    /\ [](\A a \in AllActions :
            a.kind = "LoadRequest" =>
               /\ FixupGURL(MakeGURL(a.req)).ok
               /\ a.arg = FixupGURL(MakeGURL(a.req)).gurl.spec)
    /\ [](\A i \in 1..Len(browser_calls) :
            browser_calls[i].call = "LoadMainFrameURL" => is_main_frame)
    /\ [][IsNavigation =>
            LET u == last_op'.arg
                nothing == UNCHANGED <<handle, ui_tasks, delivered, next_id>>
            IN  IF last_op'.op = "LoadURL" /\ is_main_frame
                THEN /\ UNCHANGED <<handle, ui_tasks, peer, next_id>>
                     /\ IF IsValid
                        THEN BrowserCalled("LoadMainFrameURL", MakeGURL(u).spec)
                        ELSE browser_calls' = browser_calls
                ELSE IF last_op'.op = "LoadURL" /\ frame_id = kInvalidFrameId
                THEN nothing
                ELSE IF ~FixupGURL(MakeGURL(u)).ok
                THEN nothing
                ELSE /\ SentLoadRequest(u)
                     /\ IF IsValid
                        THEN BrowserCalled("OnSetFocus", "FOCUS_SOURCE_NAVIGATION")
                        ELSE browser_calls' = browser_calls]_vars

\* C7 witness: LoadRequest on the main frame reached the peer with the URL
\* fixed up to http, and the browser was asked for focus.
C7_Witness ==
    /\ is_main_frame
    /\ last_op = Op("LoadRequest", "example.com")
    /\ Len(peer) = 1
    /\ peer[1].act.kind = "LoadRequest"
    /\ peer[1].act.arg = "http://example.com/"
    /\ browser_calls = <<[call |-> "OnSetFocus", arg |-> "FOCUS_SOURCE_NAVIGATION"]>>

-----------------------------------------------------------------------------
(* Properties of script execution, checked under SpecScript.               *)

\* C8: a script action carries a body that is not empty and start line 1 when
\* the caller's was <= 0, the caller's otherwise, wherever the action is; an
\* execution with an empty body changes nothing.
C8_StartLineClamped ==
    /\ [](\A a \in AllActions :
            a.kind = "SendJavaScript" =>
               /\ a.arg # ""
               /\ a.line = IF a.reqLine <= 0 THEN 1 ELSE a.reqLine)
    /\ [][last_op' = Op("SendJavaScript", "") =>
            UNCHANGED <<handle, ui_tasks, delivered, next_id>>]_vars

\* C8 witness: a script issued with start line 0 before attachment was queued
\* and reached the peer in the drain with start line 1.
C8_Witness ==
    /\ Len(peer) = 1
    /\ peer[1].drain
    /\ peer[1].act.kind = "SendJavaScript"
    /\ peer[1].act.reqLine = 0
    /\ peer[1].act.line = 1

-----------------------------------------------------------------------------
(* Properties of teardown and of the dispatch core without host, checked   *)
(* under SpecDispatch.                                                     *)

\* C11: Detach() leaves the queue empty and delivers nothing; from then on the
\* queue stays empty and nothing reaches the peer, so no action that was queued
\* or re-posted and not yet run when Detach() came is ever delivered.
C11_DetachCancelsPending ==
    /\ [](~browser_info => queued_actions = <<>>)
    /\ [][last_op'.op = "Detach" => (queued_actions' = <<>> /\ peer' = peer)]_vars
    /\ [][~browser_info => peer' = peer]_vars

\* C11 witness: an attached handle with one action delivered was detached while
\* a re-posted call was waiting; the call has run since and reached nothing.
C11_Witness ==
    /\ ~browser_info
    /\ is_attached
    /\ next_id = 3
    /\ Len(peer) = 1
    /\ ui_tasks = <<>>
    /\ last_op.op = "RunTask"

-----------------------------------------------------------------------------
(* Properties of the parent id, checked under Spec.                        *)

\* C12: a main-frame handle has parent_frame_id_ kInvalidFrameId and no parent.
\* Any other handle has a positive parent_frame_id_, bound or not.  Nothing
\* changes parent_frame_id_ but RefreshAttributes() on a bound handle that is
\* not the main frame's, which sets it to the id of the host's parent.
C12_ParentId ==
    /\ [](is_main_frame => (parent_frame_id = kInvalidFrameId /\ GetParent = 0))
    /\ [](~is_main_frame => parent_frame_id > 0)
    /\ [][parent_frame_id' # parent_frame_id =>
            /\ last_op'.op = "RefreshAttributes"
            /\ ~is_main_frame /\ render_frame_host # 0]_vars
    /\ [][(last_op'.op = "RefreshAttributes" /\ ~is_main_frame /\ render_frame_host # 0) =>
            /\ parent_frame_id' = MakeFrameId(HostParent(render_frame_host))
            /\ parent_frame_id' > 0]_vars

\* C12 witness: a handle made with host 4 as parent and bound to host 3 has,
\* after RefreshAttributes(), the id of host 1, the parent of host 3.
C12_Witness ==
    /\ ~is_main_frame
    /\ render_frame_host = 3
    /\ last_op.op = "RefreshAttributes"
    /\ parent_frame_id = MakeFrameId(1)
    /\ GetParent = MakeFrameId(1)

-----------------------------------------------------------------------------
(* Properties of navigation on a handle without frame id, checked under    *)
(* SpecNavigation.                                                         *)

\* GetFrameId() is below kMainFrameId: a handle for another frame than the
\* main frame that was never bound.
Unresolved == GetFrameId < kMainFrameId

\* C13 as stated: LoadURL or LoadRequest on a handle whose frame id is below
\* kMainFrameId has no effect: no action is made, posted, queued or delivered
\* and no call is made on the browser.
C13_UnresolvedNavigationRejected ==
    [][(IsNavigation /\ Unresolved) =>
          UNCHANGED <<handle, ui_tasks, delivered, next_id>>]_vars

\* C13 amended: LoadURL on such a handle has no effect.  LoadRequest does not
\* test the frame id: when the URL can be fixed up it hands its action to
\* SendToRenderFrame, which drops it on the UI thread (no host is bound) and
\* re-posts it from another thread, and then calls OnSetFocus when the browser
\* is still there; it never calls LoadMainFrameURL.
C13_UnresolvedNavigation ==
    /\ [](Unresolved => (render_frame_host = 0 /\ queued_actions = <<>>))
    /\ [][(IsNavigation /\ Unresolved) =>
            LET u == last_op'.arg
                nothing == UNCHANGED <<handle, ui_tasks, delivered, next_id>>
            IN  IF last_op'.op = "LoadURL" \/ ~FixupGURL(MakeGURL(u)).ok
                THEN nothing
                ELSE /\ UNCHANGED <<handle, peer>>
                     /\ next_id' = next_id + 1
                     /\ \/ ui_tasks' = ui_tasks
                        \/ /\ Len(ui_tasks') = Len(ui_tasks) + 1
                           /\ ui_tasks'[Len(ui_tasks')].id = next_id'
                           /\ ui_tasks'[Len(ui_tasks')].kind = "LoadRequest"
                           /\ ~ui_tasks'[Len(ui_tasks')].uit
                     /\ IF IsValid
                        THEN BrowserCalled("OnSetFocus", "FOCUS_SOURCE_NAVIGATION")
                        ELSE browser_calls' = browser_calls]_vars

\* C13 witness: LoadRequest on the UI thread on a handle without frame id; the
\* action is gone and the browser was asked for focus.
C13_Witness ==
    /\ Unresolved
    /\ last_op = Op("LoadRequest", "https://example.com")
    /\ next_id = 1
    /\ ui_tasks = <<>> /\ queued_actions = <<>> /\ peer = <<>>
    /\ browser_calls = <<[call |-> "OnSetFocus", arg |-> "FOCUS_SOURCE_NAVIGATION"]>>

-----------------------------------------------------------------------------
(* Properties of the threads, checked under SpecDispatch.                  *)

\* The step is a call made off the UI thread: the action it made says so.
IsCallOffUIThread ==
    /\ next_id' = next_id + 1
    /\ \E a \in AllActions' : a.id = next_id' /\ ~a.uit

\* C14: a call made off the UI thread posts its action, once, behind the ones
\* posted before, and leaves the handle, the peer and the browser alone.  So
\* every step that changes the queue, the attach flag or the connection is a
\* step of the UI thread: an operation called there or a re-posted call run
\* there.  Only calls made off the UI thread are ever posted.
C14_QueueMutatedOnUIThread ==
    /\ [](\A i \in 1..Len(ui_tasks) : ~ui_tasks[i].uit)
    /\ [](\A i \in 1..Len(queued_actions) :
            \A j \in 1..Len(ui_tasks) : queued_actions[i].id # ui_tasks[j].id)
    /\ [][IsCallOffUIThread =>
            /\ ui_tasks' # <<>>
            /\ ui_tasks'[Len(ui_tasks')].id = next_id'
            /\ ui_tasks' = Append(ui_tasks, ui_tasks'[Len(ui_tasks')])
            /\ UNCHANGED <<handle, delivered>>]_vars
    /\ [][(queued_actions' # queued_actions \/ is_attached' # is_attached
              \/ render_frame' # render_frame \/ render_frame_host' # render_frame_host) =>
            /\ ~IsCallOffUIThread
            /\ \/ ui_tasks' = ui_tasks
               \/ last_op'.op = "RunTask" /\ ui_tasks' = Tail(ui_tasks)]_vars

\* C14 witness: a bound handle, not attached, with one action queued by a call
\* on the UI thread, on which a call off the UI thread has just been posted.
C14_Witness ==
    /\ render_frame_host # 0
    /\ ~is_attached
    /\ last_op.op = "SendCommand"
    /\ Len(queued_actions) = 1 /\ queued_actions[1].uit
    /\ Len(ui_tasks) = 1 /\ ui_tasks[1].id = next_id

-----------------------------------------------------------------------------
(* Properties of the dispatch core without host or without connection,     *)
(* checked under SpecDispatch.                                             *)

\* The step is SendToRenderFrame on the UI thread for the action numbered id:
\* a call made there, or a re-posted call run there.
IsSendOnUIThread(id) ==
    \/ /\ next_id' = next_id + 1
       /\ ui_tasks' = ui_tasks
       /\ id = next_id'
    \/ /\ last_op'.op = "RunTask"
       /\ ui_tasks # <<>>
       /\ ui_tasks' = Tail(ui_tasks)
       /\ id = Head(ui_tasks).id

\* C15: SendToRenderFrame on the UI thread of a handle without host changes
\* nothing of the handle and delivers nothing, attached or not, and the action
\* is kept nowhere.
C15_DroppedWithoutHost ==
    [][\A id \in 1..next_id' :
          (render_frame_host = 0 /\ IsSendOnUIThread(id)) =>
             /\ UNCHANGED <<handle, delivered>>
             /\ \A a \in AllActions' : a.id # id]_vars

\* C15 witness: a handle never bound and yet attached, on which a command
\* called on the UI thread has left no trace.
C15_Witness ==
    /\ browser_info
    /\ render_frame_host = 0
    /\ is_attached
    /\ last_op.op = "SendCommand"
    /\ next_id = 1
    /\ Waiting = <<>> /\ peer = <<>>

\* The numbers of the actions that are somewhere.
Ids(actions) == {a.id : a \in actions}

\* C16: the first FrameAttached() sets is_attached_ and empties the queue; when
\* the connection does not resolve it delivers nothing.  After attachment an
\* action that finds no connection on the UI thread is neither delivered nor
\* queued.  An action that is gone, neither waiting nor delivered, never comes
\* back, whether or not the connection resolves later.
C16_UnresolvedDrops ==
    /\ [][(~is_attached /\ attach_calls' = attach_calls + 1) =>
            (is_attached' /\ queued_actions' = <<>>)]_vars
    /\ [][(IsDrain /\ render_frame' = 0) => (peer' = peer /\ ui_tasks' = ui_tasks)]_vars
    /\ [][\A id \in 1..next_id' :
            (is_attached /\ IsSendOnUIThread(id) /\ render_frame' = 0) =>
               /\ peer' = peer /\ queued_actions' = queued_actions
               /\ id \notin Ids(AllActions')]_vars
    /\ [][\A id \in 1..next_id :
            id \notin Ids(AllActions) => id \notin Ids(AllActions')]_vars

\* C16 witness: the first FrameAttached() found two actions queued and no
\* connection; the handle is attached and the actions are gone.
C16_Witness ==
    /\ last_op = Op("FrameAttached", "dropped")
    /\ is_attached /\ attach_calls = 1
    /\ render_frame_host # 0 /\ render_frame = 0
    /\ next_id = 2
    /\ Waiting = <<>> /\ peer = <<>>

-----------------------------------------------------------------------------
(* Properties of binding, checked under Spec.                              *)

\* C17: SetRenderFrameHost on a detached handle ends the process and records
\* nothing; nothing happens after that.  On a handle that is not detached it
\* resets the connection, records the host and takes frame_id_, url_ and name_
\* from it; is_attached_, is_focused_, parent_frame_id_, the queue and
\* everything else stay as they were.
C17_SetRenderFrameHost ==
    /\ [][aborted => FALSE]_vars
    /\ [][last_op'.op = "SetRenderFrameHost" =>
            IF ~browser_info
            THEN /\ aborted'
                 /\ UNCHANGED <<handle, ui_tasks, delivered>>
            ELSE /\ ~aborted'
                 /\ render_frame' = 0
                 /\ render_frame_host' \in Hosts
                 /\ frame_id' = MakeFrameId(render_frame_host')
                 /\ url' = HostURL(render_frame_host')
                 /\ name' = HostFrameName(render_frame_host')
                 /\ UNCHANGED <<is_main_frame, parent_frame_id, is_focused,
                                browser_info, is_attached, queued_actions,
                                ui_tasks, delivered>>]_vars

\* C17 witness: SetRenderFrameHost on a detached handle that had been bound to
\* host 3: the process is gone and the handle is as Detach() left it.
C17_Witness ==
    /\ aborted
    /\ last_op.op = "SetRenderFrameHost"
    /\ ~browser_info
    /\ render_frame_host = 0
    /\ frame_id = MakeFrameId(3) /\ url = HostURL(3)

-----------------------------------------------------------------------------
(* Delivery, checked under SpecLive.                                       *)

\* The action numbered id waits on a bound handle, re-posted or queued.
Pending(id) == render_frame_host # 0 /\ id \in Ids({Waiting[i] : i \in 1..Len(Waiting)})

\* The action numbered id has run against the peer.
Delivered(id) == id \in Ids({peer[i].act : i \in 1..Len(peer)})

\* C18: with every connection resolving and the UI thread running its tasks,
\* if the handle is attached at some time then every action that waits on a
\* bound handle is delivered in the end, unless Detach() comes first.
C18_EventuallyDelivered ==
    \A id \in 1..MaxLiveActions :
        (<>is_attached) => (Pending(id) ~> (Delivered(id) \/ ~browser_info))

\* C18 witness: an action called off the UI thread before attachment whose
\* re-posted call ran after the drain, and went to the peer directly.
C18_Witness ==
    /\ Len(peer) = 1
    /\ ~peer[1].act.uit /\ ~peer[1].act.att /\ ~peer[1].drain

-----------------------------------------------------------------------------
(* Properties of the connection and of the attach flag, checked under      *)
(* SpecDispatch.                                                           *)

\* C19: a bound connection belongs to an attached handle and to the host that
\* is bound now; SetRenderFrameHost and Detach() leave the handle without
\* connection; every action that reaches the peer goes to the host bound at
\* that time.
C19_ConnectionOfCurrentHost ==
    /\ [](render_frame # 0 =>
            /\ is_attached
            /\ render_frame_host # 0
            /\ render_frame = render_frame_host)
    /\ [][last_op'.op \in {"SetRenderFrameHost", "Detach"} => render_frame' = 0]_vars
    /\ [][\A k \in (Len(peer) + 1)..Len(peer') :
            /\ peer'[k].host = render_frame_host
            /\ peer'[k].host = render_frame']_vars

\* C19 witness: an attached handle delivered to host 1, was bound to host 4
\* and delivered to host 4.
C19_Witness ==
    /\ render_frame_host = 4 /\ render_frame = 4
    /\ Len(peer) = 2
    /\ peer[1].host = 1 /\ peer[2].host = 4

-----------------------------------------------------------------------------
(* The attach flag under every operation, checked under Spec.              *)

\* C20: is_attached_ never turns from true to false.  So on an attached
\* handle with a host, bound again or not, SendToRenderFrame on the UI thread
\* never queues: the action goes over the connection to the host bound now,
\* resolved then if need be (without connection it is dropped).  The drain
\* delivers the queued actions to the host bound when FrameAttached() comes.
C20_AttachedForGood ==
    /\ [][is_attached => is_attached']_vars
    /\ [][\A id \in 1..next_id' :
            (is_attached /\ render_frame_host # 0 /\ IsSendOnUIThread(id)) =>
               /\ queued_actions' = queued_actions
               /\ IF render_frame' = 0
                  THEN peer' = peer
                  ELSE /\ render_frame' = render_frame_host
                       /\ Len(peer') = Len(peer) + 1
                       /\ peer'[Len(peer')].act.id = id
                       /\ peer'[Len(peer')].host = render_frame_host
                       /\ ~peer'[Len(peer')].drain]_vars
    /\ [][(IsDrain /\ render_frame' # 0) =>
            /\ Len(peer') = Len(peer) + Len(queued_actions)
            /\ \A k \in 1..Len(queued_actions) :
                  /\ peer'[Len(peer) + k].act.id = queued_actions[k].id
                  /\ peer'[Len(peer) + k].host = render_frame_host]_vars

\* C20 witness: DidStopLoading queued for host 1 was delivered by the drain
\* to host 4, bound in between.
C20_Witness ==
    /\ is_attached
    /\ Len(peer) = 1
    /\ peer[1].drain
    /\ peer[1].act.kind = "DidStopLoading"
    /\ peer[1].act.reqLine = 1
    /\ peer[1].host = 4

====
